---- MODULE Spec2Model ----
(***************************************************************************)
(* A model of src/arduino/main.cpp: the data-collection firmware of a      *)
(* two-wheeled robot (quadrature encoders read by interrupt handlers, a    *)
(* compass heading, a CSV log on an SD card and the random "autodrive").   *)
(*                                                                         *)
(* The target is an AVR Arduino (the encoder A signals sit on the external *)
(* interrupt pins 2 and 3): int is 16 bits, long is 32 bits.  Arithmetic   *)
(* in long and the conversions to int wrap in two's complement, which is   *)
(* what the multiply, add and store instructions of that build produce.    *)
(* Angles are counted in units of pi/4, so PI is 4 and 2*PI is 8.          *)
(***************************************************************************)
EXTENDS Integers, Sequences, FiniteSets, TLC

\* ---------------------------------------------------------------- bounds

\* The clock value (ms) past which the model stops taking ticks.
MaxClock == 160

\* The most milliseconds that may pass beyond a nominal wait.
MaxJitter == 1

\* The most encoder interrupts (both wheels together) in one run.
MaxEdges == 3

\* The most drive segments autodrive() draws in one run.
MaxSegments == 2

\* The values random() may return: avr-libc's long random(void) yields a
\* value in [0, 2^31-1].  0 and 1 are the small draws, 1000000 makes a
\* duration of 1000001000 ms without overflow and 4294966 overflows long
\* in "* 1000", which wraps to a duration of -296 ms.
RandomDraws == {0, 1, 1000000, 4294966}

\* A random() that keeps returning 0: every segment lasts 1000 ms at speed 128.
SteadyDraws == {0}

\* The field strengths compass.getX() / getY() may return.
Field == {-1, 0, 1}

\* ------------------------------------------------------- machine integers

TwoTo15 == 32768
TwoTo16 == 65536
MaxLong == 2147483647
MinLong == (-MaxLong) - 1

\* The 32-bit two's complement value with the 16-bit halves hi and lo.
ToLong(hi, lo) ==
  IF hi >= TwoTo15 THEN (hi - TwoTo16) * TwoTo16 + lo ELSE hi * TwoTo16 + lo

HiWord(a) == (a \div TwoTo16) % TwoTo16
LoWord(a) == a % TwoTo16

\* long + long, wrapping.
AddLong(a, b) ==
  LET lo == LoWord(a) + LoWord(b)
  IN  ToLong((HiWord(a) + HiWord(b) + (lo \div TwoTo16)) % TwoTo16, lo % TwoTo16)

\* -long, wrapping (the negation of MinLong is MinLong).
NegLong(a) == IF a = MinLong THEN MinLong ELSE -a

\* long - long, wrapping.
SubLong(a, b) == AddLong(a, NegLong(b))

\* (x * y) mod 2^16 for 16-bit words x and y.
MulWord(x, y) ==
  ((x % 256) * y + (((x \div 256) * y) % 256) * 256) % TwoTo16

\* long * long, wrapping: the low 32 bits of the product, from 16-bit halves.
MulLong(a, b) ==
  LET al == LoWord(a)
      ah == HiWord(a)
      bl == LoWord(b)
      bh == HiWord(b)
      p1 == al * (bl \div 256)
      p0 == al * (bl % 256)
      t  == (p1 % 256) * 256 + p0
      lo == t % TwoTo16
      c  == (p1 \div 256) + (t \div TwoTo16)
      hi == (c + MulWord(al, bh) + MulWord(ah, bl)) % TwoTo16
  IN  ToLong(hi, lo)

\* The results long / long can have.  The quotient truncates toward zero.
\* Division by zero and MinLong / -1 are undefined: any quotient of
\* DivUndefined may come out.
DivUndefined == {-1, 0, 1}

DivLong(n, d) ==
  IF d = 0 \/ (n = MinLong /\ d = -1) THEN DivUndefined
  ELSE IF d = MinLong THEN {IF n = MinLong THEN 1 ELSE 0}
  ELSE IF n = MinLong
    THEN LET q == (-(n + (IF d > 0 THEN d ELSE -d))) \div (IF d > 0 THEN d ELSE -d) + 1
         IN  {IF d > 0 THEN -q ELSE q}
  ELSE LET q == (IF n >= 0 THEN n ELSE -n) \div (IF d > 0 THEN d ELSE -d)
       IN  {IF (n >= 0) = (d > 0) THEN q ELSE -q}

\* The conversion of a long to a 16-bit int.
ToInt(a) ==
  LET m == a % TwoTo16 IN IF m >= TwoTo15 THEN m - TwoTo16 ELSE m

\* ------------------------------------------------------------- the state

VARIABLES
  pc,                    \* the main program's position
  clock,                 \* what millis() returns
  intEnabled,            \* the processor's global interrupt enable
  attached,              \* the encoder handlers are attached
  volatile_left_steps,
  volatile_right_steps,
  leftPhases,            \* history: signal B as read by each interruptLeft()
  rightEdges,            \* history: the number of interruptRight() calls
  fileOpen,              \* the File object refers to an open file
  log,                   \* the lines of tele.csv
  start_time, start_left, start_right,
  end_time, end_left, end_right,
  time,                  \* autodrive()'s local, as of its last call
  left_pwm, right_pwm,   \* the duty values last given to analogWrite()
  driven,                \* analogWrite() has been called
  segments,              \* history: the number of segments autodrive() drew
  previous_heading,
  previous_left_steps,
  previous_right_steps,
  heading_change,        \* loop()'s locals
  left_steps,
  right_steps,
  ticks,                 \* history: the number of loop() calls begun
  flushed,               \* the number of lines of tele.csv that are flushed
  tick_start,            \* history: the clock when the last loop() call began
  compass_reads,         \* history: the number of compass.read() calls
  sum_left,              \* history: the sum of the left changes given to writeSD()
  sum_right              \* history: the sum of the right changes given to writeSD()

encoderVars == <<volatile_left_steps, volatile_right_steps, leftPhases, rightEdges>>
driveVars == <<start_time, start_left, start_right, end_time, end_left, end_right,
               time, left_pwm, right_pwm, driven, segments>>
loopVars == <<previous_heading, previous_left_steps, previous_right_steps,
              heading_change, left_steps, right_steps>>
histVars == <<tick_start, compass_reads, sum_left, sum_right>>
vars == <<pc, clock, intEnabled, attached, encoderVars, fileOpen, log,
          driveVars, loopVars, ticks, flushed, histVars>>

\* A line a previous run left in tele.csv.
OldLine == <<7, 7, 1>>

Init ==
  /\ pc = "setup"
  /\ clock = 0
  /\ intEnabled = TRUE
  /\ attached = FALSE
  /\ volatile_left_steps = 0
  /\ volatile_right_steps = 0
  /\ leftPhases = <<>>
  /\ rightEdges = 0
  /\ fileOpen = FALSE
  /\ log \in {<<>>, <<OldLine>>}
  /\ start_time = 0 /\ start_left = 0 /\ start_right = 0
  /\ end_time = 0 /\ end_left = 0 /\ end_right = 0
  /\ time = 0
  /\ left_pwm = 0 /\ right_pwm = 0
  /\ driven = FALSE
  /\ segments = 0
  /\ previous_heading = 0
  /\ previous_left_steps = 0
  /\ previous_right_steps = 0
  /\ heading_change = 0
  /\ left_steps = 0
  /\ right_steps = 0
  /\ ticks = 0
  /\ flushed = Len(log)
  /\ tick_start = 0
  /\ compass_reads = 0
  /\ sum_left = 0
  /\ sum_right = 0

\* --------------------------------------------------------------- compass

\* PI, in units of pi/4.
PI == 4

\* atan2f(y, x) for field strengths on the axes and the diagonals.  With
\* integer arguments the result is in (-PI, PI]: atan2f(0, x) is PI for a
\* negative x, and atan2f(0, 0) is 0.
Atan2(y, x) ==
  IF y = 0 THEN (IF x < 0 THEN PI ELSE 0)
  ELSE IF y > 0 THEN (IF x > 0 THEN 1 ELSE IF x = 0 THEN 2 ELSE 3)
  ELSE (IF x > 0 THEN -1 ELSE IF x = 0 THEN -2 ELSE -3)

\* compassHeading() reading the compass twice.
CompassReads_Twice == 1 + 1

\* The number of compass.read() calls one compassHeading() makes.
CompassReads == 1

\* The headings compassHeading() may return.
Headings == {Atan2(y, x) : y \in Field, x \in Field}

\* A compass at rest, pointing along the x axis.
SteadyHeadings == {Atan2(0, 1)}

\* WrapHeading without its first correction.
WrapHeading_NoUpper(d) == IF d < -PI THEN d + 2 * PI ELSE d

\* WrapHeading correcting by half a turn instead of a full one.
WrapHeading_HalfTurn(d) ==
  LET a == IF d > PI THEN d - PI ELSE d
  IN  IF a < -PI THEN a + PI ELSE a

\* loop()'s two corrections of the raw change in heading.
WrapHeading(d) ==
  LET a == IF d > PI THEN d - 2 * PI ELSE d
  IN  IF a < -PI THEN a + 2 * PI ELSE a

\* -------------------------------------------------------------- encoders

\* LeftStep adding the level of signal B itself.
LeftStep_Level(b) == b

\* The step interruptLeft() adds for the value b of signal B.
LeftStep(b) == 2 * b - 1

\* The step interruptRight() makes for the value b of signal B.
RightStep(b) == -(2 * b - 1)

EdgesSeen == Len(leftPhases) + rightEdges

interruptLeft ==
  /\ attached /\ intEnabled
  /\ EdgesSeen < MaxEdges
  /\ \E b \in {0, 1} :
       /\ volatile_left_steps' = ToInt(volatile_left_steps + LeftStep(b))
       /\ leftPhases' = Append(leftPhases, b)
  /\ UNCHANGED <<pc, clock, intEnabled, attached, volatile_right_steps, rightEdges,
                 fileOpen, log, driveVars, loopVars, ticks, flushed, histVars>>

interruptRight ==
  /\ attached /\ intEnabled
  /\ EdgesSeen < MaxEdges
  /\ \E b \in {0, 1} :
       volatile_right_steps' = ToInt(volatile_right_steps + RightStep(b))
  /\ rightEdges' = rightEdges + 1
  /\ UNCHANGED <<pc, clock, intEnabled, attached, volatile_left_steps, leftPhases,
                 fileOpen, log, driveVars, loopVars, ticks, flushed, histVars>>

\* ------------------------------------------------------------- autodrive

\* map(x, in_min, in_max, out_min, out_max) of the Arduino core:
\*   (x - in_min) * (out_max - out_min) / (in_max - in_min) + out_min
\* in long.  The set of its possible results.
Map(x, in_min, in_max, out_min, out_max) ==
  {AddLong(q, out_min) :
     q \in DivLong(MulLong(SubLong(x, in_min), SubLong(out_max, out_min)),
                   SubLong(in_max, in_min))}

\* SegmentElapsed with the comparison made inclusive.
SegmentElapsed_Inclusive(t, e) == t >= e

\* autodrive()'s test for drawing a new segment at time t.
SegmentElapsed(t, e) == t > e

\* NextStart with the two speeds crossed over.
NextStart_Crossed(et, el, er) == [time |-> et, left |-> er, right |-> el]

\* The start of a new segment, from the end of the one it replaces.
NextStart(et, el, er) == [time |-> et, left |-> el, right |-> er]

\* The end of a new segment drawn at time t with random() returning r.
NextEndTime(t, r) == AddLong(AddLong(t, MulLong(r, 1000)), 1000)

\* A speed target drawn with random() returning r, stored in an int.
NextSpeed(r) == ToInt(AddLong(MulLong(r, 128), 128))

\* constrain(amt, low, high) of the Arduino core is an expression giving
\* the clamped value; autodrive() uses it as a statement and drops the
\* value, so what goes to analogWrite() is amt itself.
ConstrainStatement(amt, low, high) == amt

setupAutodrive(t0, t1) ==
  /\ start_time' = t0
  /\ start_left' = 128
  /\ start_right' = 128
  /\ end_time' = AddLong(t1, 100)
  /\ end_left' = 128
  /\ end_right' = 128
  /\ UNCHANGED <<time, left_pwm, right_pwm, driven, segments>>

autodrive(Draws) ==
  /\ pc = "autodrive"
  /\ time' = clock
  /\ IF SegmentElapsed(clock, end_time)
       THEN /\ segments < MaxSegments
            /\ \E r1 \in Draws, r2 \in Draws, r3 \in Draws :
                 /\ start_time' = NextStart(end_time, end_left, end_right).time
                 /\ start_left' = NextStart(end_time, end_left, end_right).left
                 /\ start_right' = NextStart(end_time, end_left, end_right).right
                 /\ end_time' = NextEndTime(clock, r1)
                 /\ end_left' = NextSpeed(r2)
                 /\ end_right' = NextSpeed(r3)
            /\ segments' = segments + 1
       ELSE UNCHANGED <<start_time, start_left, start_right,
                        end_time, end_left, end_right, segments>>
  /\ \E l \in Map(clock, start_time', end_time', start_left', end_left'),
        r \in Map(clock, start_time', end_time', start_right', end_right') :
       /\ left_pwm' = ConstrainStatement(ToInt(l), 128, 255)
       /\ right_pwm' = ConstrainStatement(ToInt(r), 128, 255)
  /\ driven' = TRUE
  /\ pc' = "delay"
  /\ UNCHANGED <<clock, intEnabled, attached, encoderVars, fileOpen, log,
                 loopVars, ticks, flushed, histVars>>

\* ---------------------------------------------------------------- SD card

\* setupSD(): SD.begin() and SD.open() may fail; neither result is looked
\* at.  SD.remove() deletes the old file when the card is there.
setupSD(begun, opened) ==
  /\ log' = IF begun THEN <<>> ELSE log
  /\ fileOpen' = (begun /\ opened)
  /\ flushed' = Len(log')

\* writeSD() up to file.write(), line 184: one line.  File::write() on a
\* File that is not open writes nothing.
writeSD(left_change, right_change, hc) ==
  log' = IF fileOpen THEN Append(log, <<left_change, right_change, hc>>) ELSE log

\* ---------------------------------------------------------- main program

setup ==
  /\ pc = "setup"
  /\ \E begun \in BOOLEAN, opened \in BOOLEAN : setupSD(begun, opened)
  /\ attached' = TRUE
  /\ \E d \in 0 .. MaxJitter :
       /\ setupAutodrive(clock, clock + d)
       /\ clock' = clock + d
  /\ pc' = "heading"
  /\ UNCHANGED <<intEnabled, encoderVars, loopVars, ticks, histVars>>

\* loop(), lines 291-303, with compassHeading() returning one of Readings.
loopHeading(Readings) ==
  /\ pc = "heading"
  /\ \E heading \in Readings :
       /\ heading_change' = WrapHeading(heading - previous_heading)
       /\ previous_heading' = heading
  /\ compass_reads' = compass_reads + CompassReads
  /\ tick_start' = clock
  /\ ticks' = ticks + 1
  /\ pc' = "noInterrupts"
  /\ UNCHANGED <<clock, intEnabled, attached, encoderVars, fileOpen, log, driveVars,
                 previous_left_steps, previous_right_steps, left_steps, right_steps,
                 flushed, sum_left, sum_right>>

\* noInterrupts leaving the interrupts enabled.
noInterrupts_Missing ==
  /\ pc = "noInterrupts"
  /\ intEnabled' = intEnabled
  /\ pc' = "readLeft"
  /\ UNCHANGED <<clock, attached, encoderVars, fileOpen, log, driveVars, loopVars,
                 ticks, flushed, histVars>>

\* noInterrupts(), line 308.
noInterrupts ==
  /\ pc = "noInterrupts"
  /\ intEnabled' = FALSE
  /\ pc' = "readLeft"
  /\ UNCHANGED <<clock, attached, encoderVars, fileOpen, log, driveVars, loopVars,
                 ticks, flushed, histVars>>

\* Line 309.
readLeft ==
  /\ pc = "readLeft"
  /\ left_steps' = volatile_left_steps
  /\ pc' = "readRight"
  /\ UNCHANGED <<clock, intEnabled, attached, encoderVars, fileOpen, log, driveVars,
                 previous_heading, previous_left_steps, previous_right_steps,
                 heading_change, right_steps, ticks, flushed, histVars>>

\* Line 310.
readRight ==
  /\ pc = "readRight"
  /\ right_steps' = volatile_right_steps
  /\ pc' = "interrupts"
  /\ UNCHANGED <<clock, intEnabled, attached, encoderVars, fileOpen, log, driveVars,
                 previous_heading, previous_left_steps, previous_right_steps,
                 heading_change, left_steps, ticks, flushed, histVars>>

\* interrupts(), line 311.
interrupts ==
  /\ pc = "interrupts"
  /\ intEnabled' = TRUE
  /\ pc' = "record"
  /\ UNCHANGED <<clock, attached, encoderVars, fileOpen, log, driveVars, loopVars,
                 ticks, flushed, histVars>>

\* loopRecord leaving previous_left_steps as it was.
loopRecord_StalePrevious ==
  /\ pc = "record"
  /\ writeSD(ToInt(SubLong(left_steps, previous_left_steps)),
             ToInt(SubLong(right_steps, previous_right_steps)),
             heading_change)
  /\ sum_left' = sum_left + ToInt(SubLong(left_steps, previous_left_steps))
  /\ sum_right' = sum_right + ToInt(SubLong(right_steps, previous_right_steps))
  /\ previous_left_steps' = previous_left_steps
  /\ previous_right_steps' = right_steps
  /\ pc' = "flush"
  /\ UNCHANGED <<clock, intEnabled, attached, encoderVars, fileOpen, driveVars,
                 previous_heading, heading_change, left_steps, right_steps, ticks,
                 flushed, tick_start, compass_reads>>

\* loop(), lines 313-321, up to the file.write() of writeSD(): the int
\* parameters of writeSD() take the long changes converted to int.
loopRecord ==
  /\ pc = "record"
  /\ writeSD(ToInt(SubLong(left_steps, previous_left_steps)),
             ToInt(SubLong(right_steps, previous_right_steps)),
             heading_change)
  /\ sum_left' = sum_left + ToInt(SubLong(left_steps, previous_left_steps))
  /\ sum_right' = sum_right + ToInt(SubLong(right_steps, previous_right_steps))
  /\ previous_left_steps' = left_steps
  /\ previous_right_steps' = right_steps
  /\ pc' = "flush"
  /\ UNCHANGED <<clock, intEnabled, attached, encoderVars, fileOpen, driveVars,
                 previous_heading, heading_change, left_steps, right_steps, ticks,
                 flushed, tick_start, compass_reads>>

\* flushSD without the flush.
flushSD_Missing ==
  /\ pc = "flush"
  /\ flushed' = flushed
  /\ pc' = "autodrive"
  /\ UNCHANGED <<clock, intEnabled, attached, encoderVars, fileOpen, log, driveVars,
                 loopVars, ticks, histVars>>

\* The file.flush() that ends writeSD(), line 185, and its return.
flushSD ==
  /\ pc = "flush"
  /\ flushed' = Len(log)
  /\ pc' = "autodrive"
  /\ UNCHANGED <<clock, intEnabled, attached, encoderVars, fileOpen, log, driveVars,
                 loopVars, ticks, histVars>>

\* A wait cut short.
DelayMs_Short == 50 \div 10

\* The argument of delay(), line 327.
DelayMs == 50

\* delay(50), line 327, and the return of loop(): its locals are gone.
loopDelay ==
  /\ pc = "delay"
  /\ \E j \in 0 .. MaxJitter :
       /\ clock + DelayMs + j <= MaxClock
       /\ clock' = clock + DelayMs + j
  /\ heading_change' = 0
  /\ left_steps' = 0
  /\ right_steps' = 0
  /\ pc' = "heading"
  /\ UNCHANGED <<intEnabled, attached, encoderVars, fileOpen, log, driveVars,
                 previous_heading, previous_left_steps, previous_right_steps,
                 ticks, flushed, histVars>>

\* The steps of loop() between the heading and the drive update.
loopSteps ==
  \/ noInterrupts
  \/ readLeft
  \/ readRight
  \/ interrupts
  \/ loopRecord
  \/ flushSD
  \/ loopDelay

Next ==
  \/ setup
  \/ loopHeading(Headings)
  \/ loopSteps
  \/ autodrive(RandomDraws)
  \/ interruptLeft
  \/ interruptRight

\* The whole program, with every input free.
Spec == Init /\ [][Next]_vars

\* The program with the wheels and the compass at rest: the drive plan with
\* every draw of random() free.
NextDrive ==
  \/ setup
  \/ loopHeading(SteadyHeadings)
  \/ loopSteps
  \/ autodrive(RandomDraws)

SpecDrive == Init /\ [][NextDrive]_vars

\* The program with the compass at rest and a steady random(): the encoder
\* interrupts interleaved with the main loop.
NextEncoder ==
  \/ setup
  \/ loopHeading(SteadyHeadings)
  \/ loopSteps
  \/ autodrive(SteadyDraws)
  \/ interruptLeft
  \/ interruptRight

SpecEncoder == Init /\ [][NextEncoder]_vars

\* The program with the wheels at rest and a steady random(): every sequence
\* of compass readings.
NextHeading ==
  \/ setup
  \/ loopHeading(Headings)
  \/ loopSteps
  \/ autodrive(SteadyDraws)

SpecHeading == Init /\ [][NextHeading]_vars

\* ------------------------------------------------------------ properties

\* The duty range of the drive outputs.
DutyRange == 128 .. 255

\* C1: every duty value autodrive() gives to analogWrite(), left or right,
\* is in [128,255].
C1_DutyInRange ==
  driven => (left_pwm \in DutyRange /\ right_pwm \in DutyRange)

\* The number of entries of the sequence s equal to v.
RECURSIVE Count(_, _)
Count(s, v) ==
  IF s = <<>> THEN 0
  ELSE (IF Head(s) = v THEN 1 ELSE 0) + Count(Tail(s), v)

\* C2: the left step counter equals the number of interruptLeft() calls that
\* read signal B low minus the number that read it high; B = low, low, high
\* leaves the counter at +1.
C2_LeftCountsLowMinusHigh ==
  /\ volatile_left_steps = Count(leftPhases, 0) - Count(leftPhases, 1)
  /\ leftPhases = <<0, 0, 1>> => volatile_left_steps = 1

\* C3: no interrupt handler runs between noInterrupts() and interrupts(), so
\* the pair loop() has read is the pair the two counters hold at the instant
\* the reads end.
C3_SnapshotConsistent ==
  /\ pc = "readRight" => left_steps = volatile_left_steps
  /\ pc = "interrupts" =>
       (left_steps = volatile_left_steps /\ right_steps = volatile_right_steps)

\* In C3's case: both counters have moved since the previous tick and both
\* have just been read.
C3_Witness ==
  /\ pc = "interrupts"
  /\ left_steps # previous_left_steps
  /\ right_steps # previous_right_steps

\* C4: after setupAutodrive() the segment has end_time > start_time and its
\* four speeds are in [128,255].
C4_SegmentInvariant ==
  pc # "setup" =>
    /\ end_time > start_time
    /\ start_left \in DutyRange /\ start_right \in DutyRange
    /\ end_left \in DutyRange /\ end_right \in DutyRange

\* C5: when autodrive() replaces the segment, the new start speeds are the
\* replaced segment's end speeds.
C5_Continuity ==
  [][segments' # segments =>
       (start_left' = end_left /\ start_right' = end_right)]_vars

\* In C5's case: a second segment has been drawn, and it starts at speeds
\* that differ from each other and from the initial 128.
C5_Witness ==
  /\ segments = 2
  /\ start_left # 128 /\ start_right # 128 /\ start_left # start_right

\* C6, as claimed: the heading change loop() computes is in (-PI, PI].
C6_HalfOpen == heading_change > -PI /\ heading_change <= PI

\* C6, amended: the heading change loop() computes is in [-PI, PI].
C6_Closed == heading_change >= -PI /\ heading_change <= PI

\* In C6's case: a raw change beyond PI has been corrected, and a raw change
\* of exactly -PI has been left alone.
C6_Witness ==
  \/ (pc = "noInterrupts" /\ previous_heading = -3 /\ heading_change = 2)
  \/ (pc = "noInterrupts" /\ previous_heading = 0 /\ heading_change = -PI)

\* C7: if the SD card or the log file could not be opened in setup, the
\* program never runs a tick and never drives the motors.
C7_HaltOnSDFailure ==
  (pc # "setup" /\ ~fileOpen) => (ticks = 0 /\ ~driven)

\* C8: a segment drawn at time now ends between 500 and 3000 ms later.
C8_DurationInRange ==
  [][segments' # segments =>
       (end_time' >= time' + 500 /\ end_time' < time' + 3000)]_vars

\* C9, as claimed: autodrive() draws a new segment exactly when
\* now >= end_time.
C9_ReplaceAtOrAfterEnd ==
  [][(pc = "autodrive" /\ pc' = "delay") =>
       ((clock >= end_time) <=> (segments' # segments))]_vars

\* C9, amended: autodrive() draws a new segment exactly when now > end_time,
\* and otherwise (now = end_time included) leaves the segment as it is.
C9_ReplaceAfterEnd ==
  [][(pc = "autodrive" /\ pc' = "delay") =>
       /\ (clock > end_time) <=> (segments' # segments)
       /\ (clock <= end_time) =>
            UNCHANGED <<start_time, start_left, start_right,
                        end_time, end_left, end_right>>]_vars

\* In C9's case: autodrive() has run at now = end_time and kept the segment.
C9_Witness ==
  pc = "delay" /\ time = end_time /\ segments = 0

\* C10: for a segment with end_time > start_time the interpolation gives
\* exactly the start speeds at start_time and the end speeds at end_time.
C10_BoundaryExact ==
  (pc # "setup" /\ end_time > start_time) =>
    /\ Map(start_time, start_time, end_time, start_left, end_left) = {start_left}
    /\ Map(start_time, start_time, end_time, start_right, end_right) = {start_right}
    /\ Map(end_time, start_time, end_time, start_left, end_left) = {end_left}
    /\ Map(end_time, start_time, end_time, start_right, end_right) = {end_right}

\* C11: every tick appends exactly one record, its own, at the end of the
\* log: tick k finds k - 1 records and leaves k.
C11_OneRecordPerTick ==
  [][(pc = "record" /\ pc' = "flush") =>
       /\ Len(log) = ticks - 1
       /\ log' = Append(log, <<ToInt(SubLong(left_steps, previous_left_steps)),
                               ToInt(SubLong(right_steps, previous_right_steps)),
                               heading_change>>)]_vars

\* C12: writeSD() flushes before it returns: at most one line is written and
\* not flushed, only while writeSD() runs, and none when a tick starts.
C12_FlushPerRecord ==
  /\ Len(log) - flushed \in {0, 1}
  /\ Len(log) # flushed => pc = "flush"
  /\ pc = "heading" => flushed = Len(log)

\* In C12's case: a line is written and not yet flushed, after the lines of
\* two earlier ticks have been flushed.
C12_Witness ==
  pc = "flush" /\ flushed = 2 /\ Len(log) = 3

\* C13: a tick starts at least 50 ms after the tick before it started.
C13_TickSpacing ==
  [][(ticks' = ticks + 1 /\ ticks >= 1) => tick_start' >= tick_start + 50]_vars

\* In C13's case: the second tick has started exactly 50 ms after the first.
C13_Witness ==
  pc = "noInterrupts" /\ ticks = 2 /\ tick_start = 50

\* C14, as claimed: every tick reads the compass 5 times.
C14_FiveReads == compass_reads = 5 * ticks

\* C14, amended: every tick reads the compass exactly once.
C14_OneRead == compass_reads = ticks

\* In C14's case: three ticks have taken their heading.
C14_Witness == pc = "noInterrupts" /\ ticks = 3 /\ compass_reads = 3

\* C15: every interruptLeft() moves the left counter by exactly +1 or -1 and
\* every interruptRight() the right counter; nothing else moves them.
C15_UnitSteps ==
  [][/\ leftPhases' # leftPhases =>
          volatile_left_steps' - volatile_left_steps \in {-1, 1}
     /\ rightEdges' # rightEdges =>
          volatile_right_steps' - volatile_right_steps \in {-1, 1}
     /\ leftPhases' = leftPhases => volatile_left_steps' = volatile_left_steps
     /\ rightEdges' = rightEdges => volatile_right_steps' = volatile_right_steps]_vars

\* In C15's case: interruptLeft() has fired with signal B low and with it
\* high, and interruptRight() has fired.
C15_Witness ==
  /\ Len(leftPhases) = 2
  /\ leftPhases[1] # leftPhases[2]
  /\ rightEdges = 1 /\ volatile_right_steps # 0

\* C16: speeds evaluated at a time past end_time, the segment not replaced
\* since, are exactly the segment's end speeds.
C16_NoExtrapolation ==
  (pc = "delay" /\ time > end_time) =>
    (left_pwm = end_left /\ right_pwm = end_right)

\* C17: the heading change loop() records differs from the raw difference by
\* 0, 2*PI or -2*PI; from a heading of 3 to a heading of -3 it is -6 + 2*PI.
C17_CongruentToRaw ==
  [][(pc = "heading" /\ pc' = "noInterrupts") =>
       /\ heading_change' - (previous_heading' - previous_heading)
            \in {0, 2 * PI, -(2 * PI)}
       /\ (previous_heading = 3 /\ previous_heading' = -3) =>
            heading_change' = (-6) + 2 * PI]_vars

\* In C17's case: the heading has gone from 3 to -3 and the change is 2.
C17_Witness ==
  /\ pc = "noInterrupts" /\ ticks >= 2
  /\ previous_heading = -3 /\ heading_change = (-6) + 2 * PI

\* C18: after setup the log holds no line of a previous run.
C18_NoOldRecords ==
  pc # "setup" => \A i \in 1 .. Len(log) : log[i] # OldLine

\* The sum of field f over the lines of the log.
RECURSIVE SumField(_, _)
SumField(lines, f) ==
  IF lines = <<>> THEN 0 ELSE Head(lines)[f] + SumField(Tail(lines), f)

\* C19: the step changes loop() has recorded add up, per wheel, to the counter
\* value of the last snapshot recorded, which once writeSD() has been called
\* is the snapshot of the current tick; with the file open the lines of the
\* log add up to the same.
C19_DeltasSumToSnapshot ==
  /\ sum_left = previous_left_steps
  /\ sum_right = previous_right_steps
  /\ pc \in {"flush", "autodrive", "delay"} =>
       (previous_left_steps = left_steps /\ previous_right_steps = right_steps)
  /\ fileOpen => (SumField(log, 1) = sum_left /\ SumField(log, 2) = sum_right)

\* In C19's case: the left wheel has stepped in two different ticks and the
\* right wheel has stepped, and both ticks are in the log.
C19_Witness ==
  /\ pc = "autodrive" /\ fileOpen /\ Len(log) = 2
  /\ log[1][1] # 0 /\ log[2][1] # 0
  /\ sum_right # 0

\* C20: the time at which autodrive() interpolates is inside the segment:
\* start_time <= time <= end_time.
C20_TimeInsideSegment ==
  pc = "delay" => (start_time <= time /\ time <= end_time)

====
